---- MODULE Spec2Model ----
(***************************************************************************)
(* LoungeCalendar: the aggregation endpoint (pages/api/public-calendar.ts) *)
(* and the month timetable component (components/TimetableCalendar.tsx).   *)
(*                                                                         *)
(* Time values.  A JavaScript Date is modelled by its time value counted   *)
(* in MINUTES since 1970-01-01T00:00Z (every instant of the model has zero *)
(* seconds and milliseconds, and TLC's integers are 32 bits wide), or by   *)
(* NaN for an Invalid Date.  The calendar arithmetic is the one of         *)
(* ECMA-262 (Day, DayFromYear, YearFromTime, MonthFromTime, DateFromTime,  *)
(* MakeDay, MakeTime, MakeDate, LocalTime, UTC).  The viewer's time zone   *)
(* is a fixed offset tz (minutes east of UTC).                             *)
(***************************************************************************)
EXTENDS Integers, Sequences, FiniteSets, TLC

VARIABLES
    calendar1Url,   \* process.env.PUBLIC_CALENDAR_URL_1
    calendar2Url,   \* process.env.PUBLIC_CALENDAR_URL_2
    pc,             \* position of the handler: "start", "await", "done"
    fetch,          \* the two ical.async.fromURL promises, [1..2 -> promise]
    all,            \* the Promise.all promise the handler awaits
    netCalls,       \* number of fromURL calls started by the invocation
    sent,           \* sequence of responses sent on res
    tz,             \* offset of the viewer's zone, minutes east of UTC
    events,         \* useState<CalendarEvent[]>([])
    loading,        \* useState(true)
    error,          \* useState<string | null>(null)
    currentDate,    \* useState(new Date())
    inflight,       \* number of fetchEvents calls awaiting their response
    view,           \* what the last render returned
    lastSettled     \* history: what the fetch that settled last settled with

apiVars == <<calendar1Url, calendar2Url, pc, fetch, all, netCalls, sent>>
uiVars  == <<tz, events, loading, error, currentDate, inflight, view,
             lastSettled>>
vars    == <<calendar1Url, calendar2Url, pc, fetch, all, netCalls, sent,
             tz, events, loading, error, currentDate, inflight, view,
             lastSettled>>

----------------------------------------------------------------------------
(* Bounds of the model. *)

\* longest parsed feed (number of entries Object.values returns)
MaxEntries == 2
\* the month buttons work within the years 2024 .. 2024 + YearSpan
YearSpan == 1
\* most requests of the component awaiting their response at once
MaxInflight == 2

----------------------------------------------------------------------------
(* ECMA-262 date arithmetic, in minutes. *)

\* the time value of an Invalid Date, and the result of its getters
NaN == -(2147483647)

\* a === b on numbers: NaN is equal to nothing
StrictEq(a, b) == a # NaN /\ b # NaN /\ a = b

MinutesPerDay == 24 * 60

Day(t) == t \div MinutesPerDay

TimeWithinDay(t) == t % MinutesPerDay

DaysInYear(y) ==
    IF y % 4 # 0 THEN 365
    ELSE IF y % 100 # 0 THEN 366
    ELSE IF y % 400 # 0 THEN 365
    ELSE 366

DayFromYear(y) ==
    365 * (y - 1970) + ((y - 1969) \div 4) - ((y - 1901) \div 100)
        + ((y - 1601) \div 400)

\* the largest y with DayFromYear(y) <= day
YearFromDay(day) ==
    LET est == 1970 + (day \div 365)
    IN  CHOOSE y \in (est - 2)..(est + 2) :
            DayFromYear(y) <= day /\ day < DayFromYear(y + 1)

\* first day-within-year of each month of a common year, and the year's end
MonthStarts == <<0, 31, 59, 90, 120, 151, 181, 212, 243, 273, 304, 334, 365>>

\* first day-within-year of month m (0-based; 12 is the end of the year)
MonthStart(m, leap) == MonthStarts[m + 1] + (IF m >= 2 THEN leap ELSE 0)

\* year, month (0-based) and day of the month of a day number
CivilFromDay(day) ==
    LET y    == YearFromDay(day)
        dy   == day - DayFromYear(y)
        leap == IF DaysInYear(y) = 366 THEN 1 ELSE 0
        m    == CHOOSE mm \in 0..11 :
                    MonthStart(mm, leap) <= dy /\ dy < MonthStart(mm + 1, leap)
    IN  [year |-> y, month |-> m, date |-> dy - MonthStart(m, leap) + 1]

YearFromTime(t) == CivilFromDay(Day(t)).year

MonthFromTime(t) == CivilFromDay(Day(t)).month

DateFromTime(t) == CivilFromDay(Day(t)).date

HourFromTime(t) == TimeWithinDay(t) \div 60

MinFromTime(t) == TimeWithinDay(t) % 60

\* MakeDay(year, month, date): month and date may lie outside their ranges
MakeDay(year, month, date) ==
    LET ym   == year + (month \div 12)
        mn   == month % 12
        leap == IF DaysInYear(ym) = 366 THEN 1 ELSE 0
    IN  DayFromYear(ym) + MonthStart(mn, leap) + date - 1

MakeTime(hour, min) == hour * 60 + min

MakeDate(day, time) == day * MinutesPerDay + time

LocalTime(t) == t + tz

UTC(t) == t - tz

\* new Date(year, month, date): local midnight; years 0..99 mean 1900..1999
NewDateYMD(year, month, date) ==
    LET yr == IF 0 <= year /\ year <= 99 THEN 1900 + year ELSE year
    IN  UTC(MakeDate(MakeDay(yr, month, date), 0))

\* the results of the getters of a Date (local time); NaN on an Invalid Date
DateParts(d) ==
    IF d = NaN
    THEN [year |-> NaN, month |-> NaN, date |-> NaN, hours |-> NaN, minutes |-> NaN]
    ELSE LET t == LocalTime(d)
             c == CivilFromDay(Day(t))
         IN  [year |-> c.year, month |-> c.month, date |-> c.date,
              hours |-> HourFromTime(t), minutes |-> MinFromTime(t)]

getFullYear(d) == DateParts(d).year

getMonth(d) == DateParts(d).month

getDate(d) == DateParts(d).date

getHours(d) == DateParts(d).hours

getMinutes(d) == DateParts(d).minutes

\* Date.prototype.setMonth(month) on a valid Date: the day of the month and
\* the time of day are kept, and MakeDay carries an overflowing day over
setMonth(d, month) ==
    LET t == LocalTime(d)
        c == CivilFromDay(Day(t))
    IN  UTC(MakeDate(MakeDay(c.year, month, c.date), TimeWithinDay(t)))

\* Date.prototype.toISOString: the UTC fields "YYYY-MM-DDTHH:mm:00.000Z",
\* kept as the tuple <<YYYY, MM, DD, HH, mm>> (MM is 1-based)
toISOString(d) ==
    LET c == CivilFromDay(Day(d))
    IN  <<c.year, c.month + 1, c.date, HourFromTime(d), MinFromTime(d)>>

\* the text of a dateTime that is no date at all
NotADate == <<>>

\* new Date(string) on such a text: the fields are read as UTC ("Z")
ParseDate(s) ==
    IF Len(s) # 5 THEN NaN
    ELSE MakeDate(MakeDay(s[1], s[2] - 1, s[3]), MakeTime(s[4], s[5]))

----------------------------------------------------------------------------
(* JavaScript values that may be missing: undefined is the empty tuple, a  *)
(* present value v is <<v>>.                                               *)

undefined == <<>>

Some(v) == <<v>>

\* the truthiness of an optional string: undefined and "" are falsy
Truthy(o) == o # undefined /\ o[1] # ""

\* obj.key on a raw object that may lack the property
Prop(obj, key) == IF key \in DOMAIN obj THEN Some(obj[key]) ELSE undefined

----------------------------------------------------------------------------
(* The feeds: what ical.async.fromURL resolves to, as Object.values lists  *)
(* its entries.  Entries follow interface ICalEvent; node-ical turns the   *)
(* wall-clock time of DTSTART;TZID=Asia/Tokyo into the instant.            *)

JstOffset == 9 * 60

\* the instant of a wall-clock time in Asia/Tokyo (month is 1-based)
icalDate(y, mo, d, h, mi) ==
    MakeDate(MakeDay(y, mo - 1, d), MakeTime(h, mi)) - JstOffset

\* a booking of period 1 on 2024-03-05, with location and description
RawMeeting ==
    [type |-> "VEVENT", uid |-> "uid-meeting", summary |-> "Meeting",
     start |-> icalDate(2024, 3, 5, 8, 50), end |-> icalDate(2024, 3, 5, 10, 20),
     location |-> "6F lounge", description |-> "weekly"]

\* the same period, exported with empty LOCATION: and DESCRIPTION: lines
RawLab ==
    [type |-> "VEVENT", uid |-> "uid-lab", summary |-> "Lab",
     start |-> icalDate(2024, 3, 5, 8, 50), end |-> icalDate(2024, 3, 5, 10, 20),
     location |-> "", description |-> ""]

\* starts one minute after period 1; neither location nor description
RawLate ==
    [type |-> "VEVENT", uid |-> "uid-late", summary |-> "Seminar",
     start |-> icalDate(2024, 3, 5, 8, 51), end |-> icalDate(2024, 3, 5, 10, 21)]

\* period 6 on the last day of February 2024, ends before it starts
RawEvening ==
    [type |-> "VEVENT", uid |-> "uid-evening", summary |-> "Club",
     start |-> icalDate(2024, 2, 29, 18, 0), end |-> icalDate(2024, 2, 29, 17, 0),
     description |-> "bring keys"]

\* 17:50 in Tokyo is 08:50 in UTC
RawDusk ==
    [type |-> "VEVENT", uid |-> "uid-dusk", summary |-> "Cleanup",
     start |-> icalDate(2025, 2, 28, 17, 50), end |-> icalDate(2025, 2, 28, 18, 0),
     location |-> "5F lounge"]

\* an entry that is no timed event
RawTimezone == [type |-> "VTIMEZONE", tzid |-> "Asia/Tokyo"]

\* a VEVENT without DTSTART: event.start is undefined
RawNoStart ==
    [type |-> "VEVENT", uid |-> "uid-broken", summary |-> "Broken",
     end |-> icalDate(2024, 3, 5, 10, 20)]

RawEntries ==
    {RawMeeting, RawLab, RawLate, RawEvening, RawDusk, RawTimezone, RawNoStart}

\* node-ical keys the parsed object by uid: no entry occurs twice in a feed
FeedSet ==
    UNION {{f \in [1..n -> RawEntries] :
                \A i, j \in 1..n : f[i] = f[j] => i = j} : n \in 0..MaxEntries}

\* the reasons a fromURL promise rejects with (network or parse failure)
Reasons ==
    {[isError |-> TRUE,  message |-> "getaddrinfo ENOTFOUND"],
     [isError |-> TRUE,  message |-> "invalid iCal data"],
     [isError |-> FALSE, message |-> "aborted"]}

\* the values an environment variable may have
EnvValues == {undefined, Some(""), Some("https://calendar.example/basic.ics")}

----------------------------------------------------------------------------
(* pages/api/public-calendar.ts *)

Origins == {"calendar1", "calendar2"}

\* the message texts are Japanese in the source; these are their glosses
MsgNoUrl == "calendar URLs are not set"

MsgFetchFailed == "failed to fetch the calendars"

MsgUnknown == "unknown error"

\* .filter(event => event.type === 'VEVENT')
IsVEvent(entry) == entry.type = "VEVENT"

\* the callback of .map throws on event.start.toISOString() or
\* event.end.toISOString() when the Date is missing or invalid
FormatThrows(entry) ==
    \/ Prop(entry, "start") = undefined
    \/ entry.start = NaN
    \/ Prop(entry, "end") = undefined
    \/ entry.end = NaN

\* what it throws: a TypeError on undefined, a RangeError on an Invalid Date
FormatError(entry) ==
    IF Prop(entry, "start") = undefined
         \/ (entry.start # NaN /\ Prop(entry, "end") = undefined)
    THEN [isError |-> TRUE,
          message |-> "Cannot read properties of undefined (reading 'toISOString')"]
    ELSE [isError |-> TRUE, message |-> "Invalid time value"]

\* FormatEvent, testing the location with `!== undefined` instead of truthiness
FormatEvent_definedCheck(entry, source) ==
    [id          |-> entry.uid,
     subject     |-> entry.summary,
     start       |-> [dateTime |-> toISOString(entry.start), timeZone |-> "Asia/Tokyo"],
     end         |-> [dateTime |-> toISOString(entry.end), timeZone |-> "Asia/Tokyo"],
     location    |-> IF Prop(entry, "location") # undefined
                     THEN Some([displayName |-> entry.location])
                     ELSE undefined,
     description |-> Prop(entry, "description"),
     source      |-> source]

\* the object literal the callback of .map builds for one entry
FormatEvent(entry, source) ==
    [id          |-> entry.uid,
     subject     |-> entry.summary,
     start       |-> [dateTime |-> toISOString(entry.start), timeZone |-> "Asia/Tokyo"],
     end         |-> [dateTime |-> toISOString(entry.end), timeZone |-> "Asia/Tokyo"],
     location    |-> IF Truthy(Prop(entry, "location"))
                     THEN Some([displayName |-> entry.location])
                     ELSE undefined,
     description |-> Prop(entry, "description"),
     source      |-> source]

\* formatEvents(events, source): Object.values(events).filter(..).map(..);
\* the result is [ok |-> TRUE, value |-> list] or, when the callback of .map
\* throws, [ok |-> FALSE, error |-> what the first failing entry throws]
formatEvents(feed, source) ==
    LET vevents == SelectSeq(feed, IsVEvent)
        bad     == {i \in 1..Len(vevents) : FormatThrows(vevents[i])}
    IN  IF bad = {}
        THEN [ok |-> TRUE,
              value |-> [i \in 1..Len(vevents) |-> FormatEvent(vevents[i], source)]]
        ELSE [ok |-> FALSE,
              error |-> FormatError(vevents[CHOOSE i \in bad : \A j \in bad : i <= j])]

\* combinedEvents, tagging both feeds 'calendar1'
combinedEvents_sameOrigin(events1, events2) ==
    LET f1 == formatEvents(events1, "calendar1")
        f2 == formatEvents(events2, "calendar1")
    IN  IF ~f1.ok THEN f1
        ELSE IF ~f2.ok THEN f2
        ELSE [ok |-> TRUE, value |-> f1.value \o f2.value]

\* combinedEvents, spreading the second feed's events first
combinedEvents_reversed(events1, events2) ==
    LET f1 == formatEvents(events1, "calendar1")
        f2 == formatEvents(events2, "calendar2")
    IN  IF ~f1.ok THEN f1
        ELSE IF ~f2.ok THEN f2
        ELSE [ok |-> TRUE, value |-> f2.value \o f1.value]

\* [...formatEvents(events1, 'calendar1'), ...formatEvents(events2, 'calendar2')]
combinedEvents(events1, events2) ==
    LET f1 == formatEvents(events1, "calendar1")
        f2 == formatEvents(events2, "calendar2")
    IN  IF ~f1.ok THEN f1
        ELSE IF ~f2.ok THEN f2
        ELSE [ok |-> TRUE, value |-> f1.value \o f2.value]

\* JSON.stringify of one event: properties whose value is undefined are left out
JsonEvent(e) ==
    LET base == [id |-> e.id, subject |-> e.subject, start |-> e.start,
                 end |-> e.end, source |-> e.source]
        loc  == IF e.location = undefined THEN <<>>
                ELSE [location |-> e.location[1]]
        desc == IF e.description = undefined THEN <<>>
                ELSE [description |-> e.description[1]]
    IN  base @@ loc @@ desc

\* res.status(400).json({ error })
Response400 == [status |-> 400, body |-> [error |-> MsgNoUrl]]

\* res.status(200).json({ value: combinedEvents })
Response200(list) ==
    [status |-> 200,
     body |-> [value |-> [i \in 1..Len(list) |-> JsonEvent(list[i])]]]

\* Response500, without the details
Response500_noDetails(err) ==
    [status |-> 500, body |-> [error |-> MsgFetchFailed]]

\* res.status(500).json({ error, details }) of the catch block
Response500(err) ==
    [status |-> 500,
     body |-> [error   |-> MsgFetchFailed,
               details |-> IF err.isError THEN err.message ELSE MsgUnknown]]

\* the promise states
Idle == [st |-> "idle"]

Pending == [st |-> "pending"]

Fulfilled(v) == [st |-> "fulfilled", value |-> v]

Rejected(r) == [st |-> "rejected", reason |-> r]

\* LocatorsMissing, with && for ||
LocatorsMissing_both == ~Truthy(calendar1Url) /\ ~Truthy(calendar2Url)

\* line 104: !calendar1Url || !calendar2Url
LocatorsMissing == ~Truthy(calendar1Url) \/ ~Truthy(calendar2Url)

\* HandlerEntry, without the return in front of the configuration error:
\* the handler goes on to the fetches after answering 400
HandlerEntry_noReturn ==
    /\ pc = "start"
    /\ sent' = IF LocatorsMissing THEN Append(sent, Response400) ELSE sent
    /\ fetch' = [i \in 1..2 |-> Pending]
    /\ netCalls' = netCalls + 2
    /\ all' = Pending
    /\ pc' = "await"
    /\ UNCHANGED <<calendar1Url, calendar2Url>>
    /\ UNCHANGED uiVars

\* lines 101-112: read the two locators; without both answer 400 and return,
\* otherwise start the two fetches and await Promise.all of them
HandlerEntry ==
    /\ pc = "start"
    /\ IF LocatorsMissing
       THEN /\ sent' = Append(sent, Response400)
            /\ pc' = "done"
            /\ UNCHANGED <<fetch, all, netCalls>>
       ELSE /\ fetch' = [i \in 1..2 |-> Pending]
            /\ netCalls' = netCalls + 2
            /\ all' = Pending
            /\ pc' = "await"
            /\ UNCHANGED sent
    /\ UNCHANGED <<calendar1Url, calendar2Url>>
    /\ UNCHANGED uiVars

\* fetch i resolves with a parsed feed; Promise.all fulfils with the last one
FetchFulfil(i) ==
    /\ fetch[i].st = "pending"
    /\ \E feed \in FeedSet :
          fetch' = [fetch EXCEPT ![i] = Fulfilled(feed)]
    /\ all' = IF all.st = "pending" /\ fetch[3 - i].st = "fulfilled"
              THEN Fulfilled(TRUE)
              ELSE all
    /\ UNCHANGED <<calendar1Url, calendar2Url, pc, netCalls, sent>>
    /\ UNCHANGED uiVars

\* fetch i rejects; Promise.all rejects with the first rejection
FetchReject(i) ==
    /\ fetch[i].st = "pending"
    /\ \E r \in Reasons :
          /\ fetch' = [fetch EXCEPT ![i] = Rejected(r)]
          /\ all' = IF all.st = "pending" THEN Rejected(r) ELSE all
    /\ UNCHANGED <<calendar1Url, calendar2Url, pc, netCalls, sent>>
    /\ UNCHANGED uiVars

\* ResumeResponse, answering with the feeds that did arrive (allSettled)
ResumeResponse_partial ==
    LET got(i, source) ==
            IF fetch[i].st = "fulfilled" /\ formatEvents(fetch[i].value, source).ok
            THEN formatEvents(fetch[i].value, source).value
            ELSE <<>>
    IN  Response200(got(1, "calendar1") \o got(2, "calendar2"))

\* lines 114-150 with both feeds at hand: the events, or the catch block's
\* response when formatEvents threw
Answer(events1, events2) ==
    LET combined == combinedEvents(events1, events2)
    IN  IF ~combined.ok THEN Response500(combined.error)
        ELSE Response200(combined.value)

\* what the handler answers once Promise.all has settled: the catch block's
\* response when the await threw, the answer made of the two feeds otherwise
ResumeResponse ==
    IF all.st = "rejected" THEN Response500(all.reason)
    ELSE Answer(fetch[1].value, fetch[2].value)

\* lines 109-150: the handler resumes once Promise.all has settled
HandlerResume ==
    /\ pc = "await"
    /\ all.st \in {"fulfilled", "rejected"}
    /\ sent' = Append(sent, ResumeResponse)
    /\ pc' = "done"
    /\ UNCHANGED <<calendar1Url, calendar2Url, fetch, all, netCalls>>
    /\ UNCHANGED uiVars

\* the component is not mounted while the handler is studied alone
UiIdle ==
    /\ tz = 0
    /\ events = <<>>
    /\ loading = TRUE
    /\ error = undefined
    /\ currentDate = 0
    /\ inflight = 0
    /\ view = [kind |-> "loading"]
    /\ lastSettled = undefined

Init ==
    /\ calendar1Url \in EnvValues
    /\ calendar2Url \in EnvValues
    /\ pc = "start"
    /\ fetch = [i \in 1..2 |-> Idle]
    /\ all = Idle
    /\ netCalls = 0
    /\ sent = <<>>
    /\ UiIdle

Next ==
    \/ HandlerEntry
    \/ \E i \in 1..2 : FetchFulfil(i)
    \/ \E i \in 1..2 : FetchReject(i)
    \/ HandlerResume

Spec == Init /\ [][Next]_vars

----------------------------------------------------------------------------
(* components/TimetableCalendar.tsx *)

TIME_SLOTS ==
    <<[name |-> "1", startHour |-> 8,  startMinute |-> 50, endHour |-> 10, endMinute |-> 20],
      [name |-> "2", startHour |-> 10, startMinute |-> 30, endHour |-> 12, endMinute |-> 0],
      [name |-> "lunch", startHour |-> 12, startMinute |-> 0, endHour |-> 13, endMinute |-> 0],
      [name |-> "3", startHour |-> 13, startMinute |-> 0,  endHour |-> 14, endMinute |-> 30],
      [name |-> "4", startHour |-> 14, startMinute |-> 40, endHour |-> 16, endMinute |-> 10],
      [name |-> "5", startHour |-> 16, startMinute |-> 20, endHour |-> 17, endMinute |-> 50],
      [name |-> "6", startHour |-> 18, startMinute |-> 0,  endHour |-> 19, endMinute |-> 30]>>

\* getDaysInMonth, taking day 0 of the month itself for the last day
getDaysInMonth_dayZero(cur) ==
    LET year    == getFullYear(cur)
        month   == getMonth(cur)
        lastDay == NewDateYMD(year, month, 0)
        n       == getDate(lastDay)
    IN  [d \in 1..n |-> NewDateYMD(year, month, d)]

\* getDaysInMonth, with the selected date cur
getDaysInMonth(cur) ==
    LET year    == getFullYear(cur)
        month   == getMonth(cur)
        lastDay == NewDateYMD(year, month + 1, 0)
        n       == getDate(lastDay)
    IN  [d \in 1..n |-> NewDateYMD(year, month, d)]

\* MatchesSlot, without the test of the minute
MatchesSlot_hourOnly(eventDate, date, timeSlot) ==
    /\ StrictEq(eventDate.date, date.date)
    /\ StrictEq(eventDate.month, date.month)
    /\ StrictEq(eventDate.year, date.year)
    /\ StrictEq(eventDate.hours, timeSlot.startHour)

\* the callback of events.filter in getEventsForTimeSlot; eventDate and
\* date stand for the getter results of the two Dates
MatchesSlot(eventDate, date, timeSlot) ==
    /\ StrictEq(eventDate.date, date.date)
    /\ StrictEq(eventDate.month, date.month)
    /\ StrictEq(eventDate.year, date.year)
    /\ StrictEq(eventDate.hours, timeSlot.startHour)
    /\ StrictEq(eventDate.minutes, timeSlot.startMinute)

\* EventDates, taking an event that does not end after its start for one
\* without a valid start
EventDates_validated(evts) ==
    [i \in 1..Len(evts) |->
        [event |-> evts[i],
         eventDate |->
            LET start == ParseDate(evts[i].start.dateTime)
                end   == ParseDate(evts[i].end.dateTime)
            IN  DateParts(IF start # NaN /\ end # NaN /\ end <= start
                          THEN NaN ELSE start)]]

\* new Date(event.start.dateTime) and its getters, for every event of the list
EventDates(evts) ==
    [i \in 1..Len(evts) |->
        [event |-> evts[i],
         eventDate |-> DateParts(ParseDate(evts[i].start.dateTime))]]

\* getEventsForTimeSlot, collecting the matches in reverse order
getEventsForTimeSlot_reversed(dated, date, timeSlot) ==
    LET hits == SelectSeq(dated, LAMBDA x : MatchesSlot(x.eventDate, date, timeSlot))
    IN  [i \in 1..Len(hits) |-> hits[Len(hits) + 1 - i].event]

\* getEventsForTimeSlot(date, timeSlot): events.filter(..); the getters are
\* pure, so they are read once per Date (dated: the events with their
\* start's getter results; date: the day's) instead of once per test
getEventsForTimeSlot(dated, date, timeSlot) ==
    LET hits == SelectSeq(dated, LAMBDA x : MatchesSlot(x.eventDate, date, timeSlot))
    IN  [i \in 1..Len(hits) |-> hits[i].event]

\* the rows of the table: days.map(day => TIME_SLOTS.map(slot => ..))
GridCells(evts, days) ==
    LET dated == EventDates(evts)
    IN  [k \in 1..Len(days) |->
            LET date == DateParts(days[k])
            IN  [s \in 1..Len(TIME_SLOTS) |->
                    getEventsForTimeSlot(dated, date, TIME_SLOTS[s])]]

\* what the component returns: the loading text, the error text, or the
\* month's table: the heading, a row per day and a cell per time slot
Render(evts, isLoading, err, cur) ==
    IF isLoading THEN [kind |-> "loading"]
    ELSE IF err # undefined THEN [kind |-> "error", message |-> err[1]]
    ELSE LET days == getDaysInMonth(cur)
         IN  [kind    |-> "grid",
              year    |-> getFullYear(cur),
              month   |-> getMonth(cur) + 1,
              columns |-> [s \in 1..Len(TIME_SLOTS) |-> TIME_SLOTS[s].name],
              days    |-> days,
              cells   |-> GridCells(evts, days)]

\* the zones the page is viewed in: Tokyo, UTC, Los Angeles (winter)
Offsets == {9 * 60, 0, -(8 * 60)}

\* the dates new Date() yields, as <<year, month (1-based), day>>
NowDates == {<<2024, 1, 31>>, <<2024, 3, 5>>, <<2000, 2, 29>>, <<2100, 2, 10>>}

\* new Date() at noon (local time) of such a date
Now(n) == UTC(MakeDate(MakeDay(n[1], n[2] - 1, n[3]), MakeTime(12, 0)))

\* the feeds behind the answers the component receives
UiFeeds ==
    {<< <<>>, <<>> >>,
     << <<RawMeeting>>, <<>> >>,
     << <<RawLate, RawMeeting>>, <<RawLab, RawMeeting>> >>,
     << <<RawEvening, RawDusk>>, <<RawTimezone, RawMeeting>> >>,
     << <<RawMeeting>>, <<RawNoStart>> >>}

\* an event of the CalendarEvent interface whose start.dateTime is a string
\* that new Date() cannot parse
BrokenStart ==
    [id          |-> "uid-broken",
     subject     |-> "Seminar",
     start       |-> [dateTime |-> NotADate, timeZone |-> "Asia/Tokyo"],
     end         |-> [dateTime |-> <<2024, 2, 29, 10, 0>>, timeZone |-> "Asia/Tokyo"],
     location    |-> undefined,
     description |-> undefined,
     source      |-> "calendar1"]

\* a body that is stored as it arrives (data.value is not validated): an
\* event with an unparseable start and one that ends before it starts
UnvalidatedValue == <<BrokenStart, FormatEvent(RawEvening, "calendar2")>>

\* what fetch("/api/public-calendar") can settle with: an answer of the
\* handler, a 2xx body of the same shape, or a rejection of fetch itself
UiAnswers ==
    {[ok |-> TRUE, response |-> Answer(p[1], p[2])] : p \in UiFeeds}
      \cup {[ok |-> TRUE, response |-> Response200(UnvalidatedValue)],
            [ok |-> TRUE, response |-> Response400],
            [ok |-> TRUE, response |-> Response500(
                [isError |-> TRUE, message |-> "getaddrinfo ENOTFOUND"])],
            [ok |-> FALSE, message |-> "Failed to fetch"]}

\* the month buttons of the model stay within 2024 .. 2024 + YearSpan
InRange(d) == getFullYear(d) \in 2024..(2024 + YearSpan)

\* fetchEvents, from the settling of fetch on: setEvents(data.value || [])
\* on a 2xx answer, setError(message) otherwise, setLoading(false) at last
FetchSettle ==
    /\ inflight > 0
    /\ inflight' = inflight - 1
    /\ \E a \in UiAnswers :
          /\ IF a.ok /\ a.response.status = 200
             THEN /\ events' = a.response.body.value
                  /\ UNCHANGED error
             ELSE /\ error' = Some(IF a.ok THEN a.response.body.error ELSE a.message)
                  /\ UNCHANGED events
          /\ lastSettled' = Some(a)
    /\ loading' = FALSE
    /\ UNCHANGED <<tz, currentDate>>
    /\ view' = Render(events', loading', error', currentDate')
    /\ UNCHANGED apiVars

\* setCurrentDate(d) and the effect that follows it: fetchEvents()
SelectDate(d) ==
    /\ view.kind = "grid"
    /\ inflight < MaxInflight
    /\ currentDate' = d
    /\ inflight' = inflight + 1
    /\ UNCHANGED <<tz, events, loading, error, lastSettled>>
    /\ view' = Render(events', loading', error', currentDate')
    /\ UNCHANGED apiVars

\* the button of the previous month
PrevMonth ==
    /\ InRange(setMonth(currentDate, getMonth(currentDate) - 1))
    /\ SelectDate(setMonth(currentDate, getMonth(currentDate) - 1))

\* the button of this month: setCurrentDate(new Date())
ThisMonth == \E n \in NowDates : SelectDate(Now(n))

\* the button of the next month
NextMonth ==
    /\ InRange(setMonth(currentDate, getMonth(currentDate) + 1))
    /\ SelectDate(setMonth(currentDate, getMonth(currentDate) + 1))

\* no handler invocation is followed while the component is studied
ApiIdle ==
    /\ calendar1Url = undefined
    /\ calendar2Url = undefined
    /\ pc = "start"
    /\ fetch = [i \in 1..2 |-> Idle]
    /\ all = Idle
    /\ netCalls = 0
    /\ sent = <<>>

\* the component after mounting: the initial state and the first fetchEvents
InitUi ==
    /\ tz \in Offsets
    /\ events = <<>>
    /\ loading = TRUE
    /\ error = undefined
    /\ \E n \in NowDates : currentDate = Now(n)
    /\ inflight = 1
    /\ view = [kind |-> "loading"]
    /\ lastSettled = undefined
    /\ ApiIdle

NextUi ==
    \/ FetchSettle
    \/ PrevMonth
    \/ ThisMonth
    \/ NextMonth

SpecUi == InitUi /\ [][NextUi]_vars

----------------------------------------------------------------------------
(* Properties of the handler, checked under Spec. *)

\* a locator that is absent or empty
Missing(url) == url = undefined \/ url = Some("")

ConfigMissing == Missing(calendar1Url) \/ Missing(calendar2Url)

BothFetched == fetch[1].st = "fulfilled" /\ fetch[2].st = "fulfilled"

\* the timed-event entries of a parsed feed, in the feed's order
TimedEntries(feed) == SelectSeq(feed, LAMBDA r : r.type = "VEVENT")

\* a timed event whose start or end cannot be serialized
Unserializable(r) ==
    \/ "start" \notin DOMAIN r
    \/ "end" \notin DOMAIN r
    \/ r.start = NaN
    \/ r.end = NaN

NormalizationFails ==
    /\ BothFetched
    /\ \E i \in 1..2 : \E k \in 1..Len(TimedEntries(fetch[i].value)) :
          Unserializable(TimedEntries(fetch[i].value)[k])

SomeFetchFailed ==
    \/ fetch[1].st = "rejected"
    \/ fetch[2].st = "rejected"
    \/ NormalizationFails

\* the raw entries a successful answer is made of: A's, then B's
RawOfAnswer == TimedEntries(fetch[1].value) \o TimedEntries(fetch[2].value)

Answered200 == pc = "done" /\ Len(sent) = 1 /\ sent[1].status = 200

\* C1: all-or-nothing join.  Whatever the outcomes and the completion order
\* of the two fetches, once one fetch (or the normalization of its result)
\* has failed the handler's answer is the fetch-failure response, which
\* carries no event of either feed; a response carrying `value` is sent
\* only when both fetches succeeded and both feeds were normalized.
C1_AllOrNothing ==
    /\ \A k \in 1..Len(sent) :
          "value" \in DOMAIN sent[k].body => BothFetched /\ ~NormalizationFails
    /\ (pc = "done" /\ netCalls > 0 /\ SomeFetchFailed) =>
          /\ Len(sent) = 1
          /\ sent[1].status = 500
          /\ sent[1].body.error = MsgFetchFailed
          /\ "value" \notin DOMAIN sent[1].body

\* one fetch delivered timed events, the other failed, and the handler answered
C1_Witness ==
    /\ pc = "done"
    /\ fetch[1].st = "fulfilled"
    /\ Len(TimedEntries(fetch[1].value)) > 0
    /\ fetch[2].st = "rejected"
    /\ Len(sent) = 1
    /\ sent[1].status = 500

\* C2: with a locator absent or empty the handler answers with the
\* configuration error and starts no fetch at all, whichever locator is
\* missing and whatever the other one is.
C2_ConfigErrorNoFetch ==
    ConfigMissing =>
        /\ netCalls = 0
        /\ \A i \in 1..2 : fetch[i].st = "idle"
        /\ pc \in {"start", "done"}
        /\ pc = "done" =>
              sent = <<[status |-> 400, body |-> [error |-> MsgNoUrl]]>>

\* the first locator is set, the second is the empty string, and the handler ran
C2_Witness ==
    /\ pc = "done"
    /\ Truthy(calendar1Url)
    /\ calendar2Url = Some("")
    /\ Len(sent) = 1
    /\ sent[1].status = 400

\* C3: when both locators are present and both feeds are fetched and
\* normalized, the answer holds exactly one event per timed-event entry of
\* feed A and of feed B, none for an entry of another kind; the events made
\* from feed A carry origin calendar1, those made from feed B calendar2, and
\* no event carries a third origin.
C3_CountAndOrigin ==
    (pc = "done" /\ BothFetched /\ ~NormalizationFails) =>
        /\ Answered200
        /\ LET value == sent[1].body.value
               nA == Cardinality({k \in DOMAIN fetch[1].value :
                                     fetch[1].value[k].type = "VEVENT"})
               nB == Cardinality({k \in DOMAIN fetch[2].value :
                                     fetch[2].value[k].type = "VEVENT"})
           IN  /\ Len(value) = nA + nB
               /\ \A k \in 1..Len(value) :
                     /\ value[k].source \in Origins
                     /\ k <= nA => value[k].source = "calendar1"
                     /\ k > nA => value[k].source = "calendar2"

\* both feeds hold a timed event and an entry of another kind
C3_Witness ==
    /\ Answered200
    /\ \A i \in 1..2 :
          /\ \E k \in DOMAIN fetch[i].value : fetch[i].value[k].type = "VEVENT"
          /\ \E k \in DOMAIN fetch[i].value : fetch[i].value[k].type # "VEVENT"

\* C4: a successful answer is the concatenation of feed A's events and feed
\* B's events, each in the order of the feed's parsed entries; nothing is
\* sorted or deduplicated, so an id present in both feeds appears twice.
C4_ConcatenationOrder ==
    Answered200 =>
        LET value == sent[1].body.value
            nA == Len(TimedEntries(fetch[1].value))
        IN  /\ Len(value) = Len(RawOfAnswer)
            /\ \A k \in 1..Len(value) :
                  /\ value[k].id = RawOfAnswer[k].uid
                  /\ value[k].source = IF k <= nA THEN "calendar1" ELSE "calendar2"

\* the same entry in both feeds, after a later event of feed A
C4_Witness ==
    /\ Answered200
    /\ fetch[1].value = <<RawDusk, RawMeeting>>
    /\ fetch[2].value = <<RawMeeting>>
    /\ Len(sent[1].body.value) = 3
    /\ sent[1].body.value[2].id = sent[1].body.value[3].id

\* C8: response shape.  Success answers {value} without error; each failure
\* answers {error} without value; the two failures differ in message and
\* status; only the fetch failure carries details, the underlying cause.
C8_ResponseShape ==
    /\ MsgNoUrl # MsgFetchFailed
    /\ pc = "done" =>
          /\ Len(sent) = 1
          /\ LET r == sent[1]
             IN  IF ConfigMissing
                 THEN r.status = 400 /\ DOMAIN r.body = {"error"}
                        /\ r.body.error = MsgNoUrl
                 ELSE IF SomeFetchFailed
                 THEN /\ r.status = 500
                      /\ DOMAIN r.body = {"error", "details"}
                      /\ r.body.error = MsgFetchFailed
                      /\ \/ \E i \in 1..2 :
                               /\ fetch[i].st = "rejected"
                               /\ r.body.details =
                                     IF fetch[i].reason.isError
                                     THEN fetch[i].reason.message
                                     ELSE MsgUnknown
                         \/ /\ NormalizationFails
                            /\ r.body.details \in
                                  {"Cannot read properties of undefined (reading 'toISOString')",
                                   "Invalid time value"}
                 ELSE r.status = 200 /\ DOMAIN r.body = {"value"}

\* a fetch failure whose cause is reported in details
C8_Witness ==
    /\ pc = "done"
    /\ fetch[2].st = "rejected"
    /\ fetch[1].st = "pending"
    /\ Len(sent) = 1
    /\ sent[1].body = [error |-> MsgFetchFailed, details |-> "invalid iCal data"]

\* the normalized fields every returned event takes from its raw entry
C9_Required(e, r) ==
    /\ e.id = r.uid
    /\ e.subject = r.summary
    /\ ParseDate(e.start.dateTime) = r.start
    /\ ParseDate(e.end.dateTime) = r.end
    /\ e.start.timeZone = "Asia/Tokyo"
    /\ e.end.timeZone = "Asia/Tokyo"

\* C9 (as amended): every returned event has the id, subject, start and end
\* of its raw entry, both zone labels Asia/Tokyo; a raw location that is
\* present and not empty becomes location.displayName, an absent or empty
\* one leaves no location field; a raw description, empty or not, is passed
\* through unchanged, an absent one leaves no description field.
C9_Normalization ==
    Answered200 =>
        \A k \in 1..Len(sent[1].body.value) :
            LET e == sent[1].body.value[k]
                r == RawOfAnswer[k]
            IN  /\ C9_Required(e, r)
                /\ IF "location" \in DOMAIN r /\ r.location # ""
                   THEN "location" \in DOMAIN e
                          /\ e.location = [displayName |-> r.location]
                   ELSE "location" \notin DOMAIN e
                /\ IF "description" \in DOMAIN r
                   THEN "description" \in DOMAIN e
                          /\ e.description = r.description
                   ELSE "description" \notin DOMAIN e

\* an answer built from an entry with empty location and description and
\* from one with neither
C9_Witness ==
    /\ Answered200
    /\ fetch[1].value = <<RawLab, RawLate>>
    /\ fetch[2].value = <<RawMeeting>>
    /\ DOMAIN sent[1].body.value[1] =
          {"id", "subject", "start", "end", "source", "description"}
    /\ sent[1].body.value[1].description = ""

\* C9 as claimed: a raw location, when present, becomes location.displayName
\* and a raw description is passed through; an optional field of the
\* returned event is never present with an empty-string value.
C9_AsClaimed ==
    Answered200 =>
        \A k \in 1..Len(sent[1].body.value) :
            LET e == sent[1].body.value[k]
                r == RawOfAnswer[k]
            IN  /\ C9_Required(e, r)
                /\ IF "location" \in DOMAIN r
                   THEN "location" \in DOMAIN e
                          /\ e.location = [displayName |-> r.location]
                   ELSE "location" \notin DOMAIN e
                /\ IF "description" \in DOMAIN r
                   THEN "description" \in DOMAIN e
                          /\ e.description = r.description
                   ELSE "description" \notin DOMAIN e
                /\ "location" \in DOMAIN e => e.location.displayName # ""
                /\ "description" \in DOMAIN e => e.description # ""

----------------------------------------------------------------------------
(* Properties of the component, checked under SpecUi. *)

\* the number of days of month m (1-based) of year y, by the calendar's rule
DaysOfMonth(y, m) ==
    IF m \in {4, 6, 9, 11} THEN 30
    ELSE IF m # 2 THEN 31
    ELSE IF (y % 4 = 0 /\ y % 100 # 0) \/ y % 400 = 0 THEN 29
    ELSE 28

\* the cells <<row, column>> of the rendered table that list event e
CellsOf(e) ==
    {c \in (1..Len(view.cells)) \X (1..Len(TIME_SLOTS)) :
        \E j \in 1..Len(view.cells[c[1]][c[2]]) : view.cells[c[1]][c[2]][j] = e}

\* the slots whose configured start is hour h, minute mi
SlotsAt(h, mi) ==
    {s \in 1..Len(TIME_SLOTS) :
        TIME_SLOTS[s].startHour = h /\ TIME_SLOTS[s].startMinute = mi}

\* the start of an event as the grid builder reads it (the viewer's zone)
StartSeen(e) == DateParts(ParseDate(e.start.dateTime))

\* the start of an event in the zone it is labelled with (Asia/Tokyo)
StartLabelled(e) ==
    IF ParseDate(e.start.dateTime) = NaN THEN DateParts(NaN)
    ELSE LET t == ParseDate(e.start.dateTime) + JstOffset
             c == CivilFromDay(Day(t))
         IN  [year |-> c.year, month |-> c.month, date |-> c.date,
              hours |-> HourFromTime(t), minutes |-> MinFromTime(t)]

\* with start p: listed once, in the cell of p's day and of the slot that
\* starts at p's hour and minute, when p lies in the month shown and such a
\* slot exists; listed nowhere otherwise
PlacedBy(e, p) ==
    IF p.year = view.year /\ p.month + 1 = view.month
         /\ SlotsAt(p.hours, p.minutes) # {}
    THEN /\ Cardinality(SlotsAt(p.hours, p.minutes)) = 1
         /\ CellsOf(e) = {<<p.date, s>> : s \in SlotsAt(p.hours, p.minutes)}
         /\ \A c \in CellsOf(e) :
               Cardinality({j \in 1..Len(view.cells[c[1]][c[2]]) :
                               view.cells[c[1]][c[2]][j] = e}) = 1
    ELSE CellsOf(e) = {}

\* C5: binning exactness.  In the grid of a month every event is listed in
\* at most one cell; an event whose start (as the builder reads it) lies in
\* the month and has the hour and minute of a slot's start is listed in
\* exactly the cell of that day and slot, whatever its end and the slot's
\* end; an event whose hour and minute differ from every slot start, even by
\* one minute, is listed in no cell.
C5_BinningExact ==
    view.kind = "grid" =>
        \A i \in 1..Len(events) :
            /\ Cardinality(CellsOf(events[i])) <= 1
            /\ PlacedBy(events[i], StartSeen(events[i]))

\* Tokyo viewer, March 2024: the 08:50 event is in (5, period 1), the 08:51
\* one in no cell
C5_Witness ==
    /\ view.kind = "grid"
    /\ tz = JstOffset
    /\ view.year = 2024
    /\ view.month = 3
    /\ \E i, j \in 1..Len(events) :
          /\ events[i].id = "uid-meeting"
          /\ CellsOf(events[i]) = {<<5, 1>>}
          /\ events[j].id = "uid-late"
          /\ CellsOf(events[j]) = {}

\* C6: end to end, an event the feed gives as starting on day D at a slot's
\* start in its own labelled zone (Asia/Tokyo) is listed in the cell (D,
\* that slot) of D's month and in no other cell, whatever the zone of the
\* machine the grid is built on.
C6_PlacedByLabelledZone ==
    view.kind = "grid" =>
        \A i \in 1..Len(events) :
            PlacedBy(events[i], StartLabelled(events[i]))

\* C7: day axis.  The day list of the selected date's month has as many
\* entries as the month has days, its k-th entry is day k of the selected
\* date's own year and month, and the entries ascend strictly.
C7_DayAxis ==
    view.kind = "grid" =>
        LET y == getFullYear(currentDate)
            m == getMonth(currentDate)
            days == view.days
        IN  /\ Len(days) = DaysOfMonth(y, m + 1)
            /\ \A k \in 1..Len(days) :
                  /\ getFullYear(days[k]) = y
                  /\ getMonth(days[k]) = m
                  /\ getDate(days[k]) = k
            /\ \A k \in 1..(Len(days) - 1) : days[k] < days[k + 1]

\* the grid of February 2024, reached with a month button
C7_Witness ==
    /\ view.kind = "grid"
    /\ getFullYear(currentDate) = 2024
    /\ getMonth(currentDate) = 1
    /\ Len(view.days) = 29

\* cell is a subsequence of list: its elements, in its order, at ascending
\* positions of list
IsSubsequence(cell, list) ==
    \E f \in [1..Len(cell) -> 1..Len(list)] :
        /\ \A i \in 1..Len(cell) : list[f[i]] = cell[i]
        /\ \A i \in 1..(Len(cell) - 1) : f[i] < f[i + 1]

\* C10: grid output order.  The events of every cell are a subsequence of
\* the event list (first-feed events before second-feed events), the rows
\* are the days in ascending order, and the columns of every row are the
\* time slots in their configured order.
C10_GridOrder ==
    view.kind = "grid" =>
        /\ view.columns = <<"1", "2", "lunch", "3", "4", "5", "6">>
        /\ \A k \in 1..Len(view.days) : getDate(view.days[k]) = k
        /\ \A k \in 1..(Len(view.days) - 1) : view.days[k] < view.days[k + 1]
        /\ Len(view.cells) = Len(view.days)
        /\ \A k \in 1..Len(view.cells) :
              /\ Len(view.cells[k]) = Len(TIME_SLOTS)
              /\ \A s \in 1..Len(TIME_SLOTS) :
                    LET cell == view.cells[k][s]
                    IN  /\ IsSubsequence(cell, events)
                        /\ \A i, j \in 1..Len(cell) :
                              (i < j /\ cell[i].source = "calendar2")
                                  => cell[j].source = "calendar2"
                        /\ \A i \in 1..Len(cell) :
                              /\ StartSeen(cell[i]).hours = TIME_SLOTS[s].startHour
                              /\ StartSeen(cell[i]).minutes = TIME_SLOTS[s].startMinute
                              /\ StartSeen(cell[i]).date = k

\* a cell listing an event of the first feed, then two of the second
C10_Witness ==
    /\ view.kind = "grid"
    /\ Len(view.days) >= 5
    /\ Len(view.cells[5][1]) = 3
    /\ view.cells[5][1][1].source = "calendar1"
    /\ view.cells[5][1][2].source = "calendar2"
    /\ view.cells[5][1][2].id # view.cells[5][1][3].id

\* the start of e cannot be parsed
UnparseableStart(e) == ParseDate(e.start.dateTime) = NaN

\* e has a start and an end, and does not end after it starts
EndNotAfterStart(e) ==
    /\ ParseDate(e.start.dateTime) # NaN
    /\ ParseDate(e.end.dateTime) # NaN
    /\ ParseDate(e.end.dateTime) <= ParseDate(e.start.dateTime)

\* C11: the grid builder has no error outcome.  Whatever the event list,
\* an empty one and one holding malformed events included, once the
\* component is neither loading nor in error the grid of the selected month
\* is built: one cell for every (day of the month, configured slot) pair.
\* With an empty list every cell is empty; an event that does not end after
\* its start is placed by its start alone; an event whose start cannot be
\* parsed is placed in no cell.
C11_GridTotal ==
    (~loading /\ error = undefined) =>
        /\ view.kind = "grid"
        /\ Len(view.cells) =
              DaysOfMonth(getFullYear(currentDate), getMonth(currentDate) + 1)
        /\ \A k \in 1..Len(view.cells) :
              DOMAIN view.cells[k] = 1..Len(TIME_SLOTS)
        /\ events = <<>> =>
              \A k \in 1..Len(view.cells) :
                  \A s \in 1..Len(TIME_SLOTS) : view.cells[k][s] = <<>>
        /\ \A i \in 1..Len(events) :
              /\ EndNotAfterStart(events[i]) =>
                    PlacedBy(events[i], StartSeen(events[i]))
              /\ UnparseableStart(events[i]) => CellsOf(events[i]) = {}

\* Tokyo viewer, February 2024: the event that ends an hour before it starts
\* is in (29, period 6), the one without a parseable start in no cell
C11_Witness ==
    /\ view.kind = "grid"
    /\ tz = JstOffset
    /\ view.year = 2024
    /\ view.month = 2
    /\ Len(view.cells) = 29
    /\ \E i, j \in 1..Len(events) :
          /\ UnparseableStart(events[i])
          /\ CellsOf(events[i]) = {}
          /\ EndNotAfterStart(events[j])
          /\ CellsOf(events[j]) = {<<29, 7>>}

\* the month a date lies in, counted in months
MonthIndex(d) == getFullYear(d) * 12 + getMonth(d)

\* C12: month navigation.  Whatever the day of the month of the selected
\* date (1 to 31), a press of the previous-month button moves the displayed
\* month back by exactly one calendar month and a press of the next-month
\* button moves it forward by exactly one, rolling the year over; so no
\* month is skipped or shown twice in a row, and n presses of next followed
\* by n presses of previous return to the month they started from.
C12_OneMonthPerPress ==
    [][/\ PrevMonth => MonthIndex(currentDate') = MonthIndex(currentDate) - 1
       /\ NextMonth => MonthIndex(currentDate') = MonthIndex(currentDate) + 1
      ]_vars

\* the fetch that settled last got a 2xx answer
LastSucceeded ==
    /\ lastSettled # undefined
    /\ lastSettled[1].ok
    /\ lastSettled[1].response.status = 200

\* C13: client fetch state.  Fetches started by changes of the selected date
\* may be in flight together and settle in any order.  In every state in
\* which no fetch is in flight and the fetch that settled last succeeded,
\* the component shows the grid (loading false, error null) and its event
\* list is the value of that last response; and once the first fetch has
\* settled, loading is false.
C13_LastSuccessShown ==
    /\ (inflight = 0 /\ LastSucceeded) =>
          /\ ~loading
          /\ error = undefined
          /\ view.kind = "grid"
          /\ events = lastSettled[1].response.body.value
    /\ lastSettled # undefined => ~loading

\* the handler can take a step of its own, or awaits a Promise.all that
\* still waits for a fetch
CanProceed ==
    \/ pc = "start"
    \/ /\ pc = "await"
       /\ \/ all.st \in {"fulfilled", "rejected"}
          \/ all.st = "pending" /\ \E i \in 1..2 : fetch[i].st = "pending"

\* C14: every invocation sends exactly one response.  At no point have two
\* responses been sent, whatever the locators and the outcomes and the order
\* of the two fetches, a fetch settling after the failure response and a
\* failure raised while normalizing included; a handler that has not
\* answered yet can still take a step or is waiting for a fetch that can
\* still settle; a handler that has run to its end has sent one response,
\* and its status is 400, 200 or 500.
C14_ExactlyOneResponse ==
    /\ Len(sent) <= 1
    /\ \A k \in 1..Len(sent) : sent[k].status \in {400, 200, 500}
    /\ pc = "done" <=> Len(sent) = 1
    /\ pc # "done" => CanProceed
    /\ pc = "done" =>
          sent[1].status = IF ConfigMissing THEN 400
                           ELSE IF SomeFetchFailed THEN 500
                           ELSE 200

\* both fetches failed, for different reasons: the handler answered the
\* failure of the first fetch, and that response is the only one
C14_Witness ==
    /\ pc = "done"
    /\ fetch[1].st = "rejected"
    /\ fetch[2].st = "rejected"
    /\ fetch[1].reason # fetch[2].reason
    /\ all.st = "rejected"
    /\ all.reason = fetch[1].reason
    /\ Len(sent) = 1
    /\ sent[1] = Response500(fetch[1].reason)

====
